---- MODULE Spec2Model ----
(***************************************************************************)
(* RapidFuzz C++ glue layer: the width-tagged string descriptor            *)
(* (RapidFuzzString), its move-only owner (ProcStringWrapper), the host    *)
(* string adapter (validate_string / convert_string), the normalizer      *)
(* (default_process_func), the release function                           *)
(* (process_dealloc_no_context), the generated two-level dispatchers      *)
(* (RATIO_IMPL / DISTANCE_IMPL) and result marshaling (dist_to_long).      *)
(***************************************************************************)
EXTENDS Integers, Sequences, FiniteSets, TLC

VARIABLES
    mem,        \* address -> memory block (host string storage and malloc heap)
    nalloc,     \* number of successful malloc calls so far (allocation ids 1..nalloc)
    freeCount,  \* allocation id -> number of free() calls that hit that allocation
    crashed,    \* the process was aborted by the allocator (double free detected)
    wrappers,   \* slot -> ProcStringWrapper object (status, str, dealloc)
    bufs,       \* slot -> bare RapidFuzzString held by a caller of the C functions
    ret,        \* record of the last call of the adapter / normalizer / release
    call        \* record of the last scorer entry-point call

vars == <<mem, nalloc, freeCount, crashed, wrappers, bufs, ret, call>>

----------------------------------------------------------------------------
(* Bounds of the model *)

WordBits == 4        \* bits of std::size_t in the model
NumWrappers == 2     \* ProcStringWrapper objects a run may construct
NumHeap == 1         \* distinct addresses malloc can return
MaxAllocs == 2       \* successful malloc calls per run
MaxLen == 2          \* highest element index a caller writes to

SizeMod == 2 ^ WordBits
SizeMax == SizeMod - 1          \* (std::size_t)-1

----------------------------------------------------------------------------
(* RapidfuzzTypes and element sizes *)

RAPIDFUZZ_UINT8 == 0
RAPIDFUZZ_UINT16 == 1
RAPIDFUZZ_UINT32 == 2
RAPIDFUZZ_UINT64 == 3
RAPIDFUZZ_INT64 == 4

LIST_OF_CASES ==
    <<RAPIDFUZZ_UINT8, RAPIDFUZZ_UINT16, RAPIDFUZZ_UINT32, RAPIDFUZZ_UINT64,
      RAPIDFUZZ_INT64>>

Kinds == {LIST_OF_CASES[i] : i \in 1..Len(LIST_OF_CASES)}

\* the TYPE column of LIST_OF_CASES
TypeOf(kind) ==
    CASE kind = RAPIDFUZZ_UINT8 -> "uint8_t"
      [] kind = RAPIDFUZZ_UINT16 -> "uint16_t"
      [] kind = RAPIDFUZZ_UINT32 -> "uint32_t"
      [] kind = RAPIDFUZZ_UINT64 -> "uint64_t"
      [] kind = RAPIDFUZZ_INT64 -> "int64_t"

\* sizeof(CharT) in bytes
SizeOf(type) ==
    CASE type = "uint8_t" -> 1
      [] type = "uint16_t" -> 2
      [] type = "uint32_t" -> 4
      [] type = "uint64_t" -> 8
      [] type = "int64_t" -> 8

PyUnicode_1BYTE_KIND == 1
PyUnicode_2BYTE_KIND == 2
PyUnicode_4BYTE_KIND == 4

nullptr == 0

----------------------------------------------------------------------------
(* Host objects.  A unicode object stores its code points at the smallest  *)
(* of the three widths that holds all of them; a bytes object is not a     *)
(* unicode object.                                                         *)

MinKind(cells) ==
    IF \A i \in 1..Len(cells) : cells[i] < 256 THEN PyUnicode_1BYTE_KIND
    ELSE IF \A i \in 1..Len(cells) : cells[i] < 65536 THEN PyUnicode_2BYTE_KIND
    ELSE PyUnicode_4BYTE_KIND

HostCells ==
    << <<32, 65>>,       \* " A"
       <<>>,             \* ""
       <<65, 257>>,      \* "Aā"
       <<70000>>,        \* one code point above U+FFFF
       <<65>> >>         \* b"A", a bytes object

Hosts ==
    [h \in 1..Len(HostCells) |->
        [unicode |-> h < Len(HostCells),
         kind |-> MinKind(HostCells[h]),
         cells |-> HostCells[h]]]

HostIds == DOMAIN Hosts
UnicodeIds == {h \in HostIds : Hosts[h].unicode}

PyUnicode_Check(h) == Hosts[h].unicode
PyUnicode_KIND(h) == Hosts[h].kind
PyUnicode_DATA(h) == h                      \* address of the object's storage
PyUnicode_GET_LENGTH(h) == Len(Hosts[h].cells)

----------------------------------------------------------------------------
(* Memory *)

HostAddrs == HostIds
HeapAddrs == (Len(HostCells) + 1)..(Len(HostCells) + NumHeap)
Addrs == HostAddrs \cup HeapAddrs
AllocIds == 1..MaxAllocs

InitMem ==
    [a \in Addrs |->
        IF a \in HostAddrs
        THEN [st |-> "host", cells |-> Hosts[a].cells, id |-> 0]
        ELSE [st |-> "unused", cells |-> <<>>, id |-> 0]]

\* what malloc may return: NULL, or any heap address that is not in use
MallocChoices ==
    {nullptr} \cup
    (IF nalloc < MaxAllocs THEN {a \in HeapAddrs : mem[a].st # "live"} ELSE {})

\* free(p): the block (its content is indeterminate from then on) and the
\* allocation's count of frees after the call
FreeMem(m, p) ==
    IF p = nullptr THEN m
    ELSE [m EXCEPT ![p].st = "freed", ![p].cells = <<>>]

FreeCnt(m, fc, p) ==
    IF p # nullptr /\ m[p].id # 0
    THEN [fc EXCEPT ![m[p].id] = IF @ < 2 THEN @ + 1 ELSE @]
    ELSE fc

\* free(p) of a block that is not a live allocation is undefined behaviour
FreeIsUB(m, p) == p # nullptr /\ m[p].st # "live"

----------------------------------------------------------------------------
(* RapidFuzzString *)

RapidFuzzString(kind, allocated, data, length, context) ==
    [kind |-> kind, allocated |-> allocated, data |-> data, length |-> length,
     context |-> context]

\* {0, 0, nullptr, 0, nullptr}
NullString == RapidFuzzString(0, 0, nullptr, 0, nullptr)

\* convert_string with the 2-byte case label missing
convert_string_no_2byte(py_str) ==
    LET kind == CASE PyUnicode_KIND(py_str) = PyUnicode_1BYTE_KIND -> RAPIDFUZZ_UINT8
                  [] OTHER -> RAPIDFUZZ_UINT32
    IN RapidFuzzString(kind, 0, PyUnicode_DATA(py_str),
                       PyUnicode_GET_LENGTH(py_str), nullptr)

convert_string(py_str) ==
    LET kind == CASE PyUnicode_KIND(py_str) = PyUnicode_1BYTE_KIND -> RAPIDFUZZ_UINT8
                  [] PyUnicode_KIND(py_str) = PyUnicode_2BYTE_KIND -> RAPIDFUZZ_UINT16
                  [] OTHER -> RAPIDFUZZ_UINT32
    IN RapidFuzzString(kind, 0, PyUnicode_DATA(py_str),
                       PyUnicode_GET_LENGTH(py_str), nullptr)

\* validate_string: "ok", or the exception it throws
validate_string(py_str) ==
    IF ~PyUnicode_Check(py_str) THEN "PythonTypeError" ELSE "ok"

\* to_string_view<T>(s): the view's element type, start and element count
to_string_view(T, s) == [type |-> T, data |-> s.data, size |-> s.length]

----------------------------------------------------------------------------
(* Normalizer *)

Lower(c) == IF c = 65 THEN 97 ELSE c
IsSpace(c) == c = 32

RECURSIVE RTrim(_)
RTrim(cells) ==
    IF cells # <<>> /\ IsSpace(cells[Len(cells)])
    THEN RTrim(SubSeq(cells, 1, Len(cells) - 1))
    ELSE cells

RECURSIVE LTrim(_)
LTrim(cells) ==
    IF cells # <<>> /\ IsSpace(cells[1]) THEN LTrim(Tail(cells)) ELSE cells

\* utils::default_process(str, len): lower-cases and trims in place; the
\* sequence returned is the content of str[0 .. new length)
default_process(cells) ==
    LTrim(RTrim([i \in 1..Len(cells) |-> Lower(cells[i])]))

Min(a, b) == IF a < b THEN a ELSE b

\* the elements [data, data + length) as far as the block holds them
ReadCells(m, data, length) ==
    IF data = nullptr THEN <<>>
    ELSE SubSeq(m[data].cells, 1, Min(length, Len(m[data].cells)))

\* the argument of malloc: sentence.length * sizeof(CharT) in std::size_t
AllocSize(length, CharT) == (length * SizeOf(CharT)) % SizeMod

\* default_process_impl without the copy: the input's data is normalized in
\* place whether or not it is allocated
default_process_impl_in_place(CharT, m, sentence, p, id) ==
    LET str == sentence.data
        out == default_process(ReadCells(m, str, sentence.length))
    IN [exc |-> "none", ub |-> "none",
        mem |-> IF str = nullptr THEN m ELSE [m EXCEPT ![str].cells = out],
        str |-> RapidFuzzString(sentence.kind, 1, str, Len(out), nullptr),
        malloced |-> nullptr, bytes |-> 0]

\* default_process_impl<CharT>(sentence) on memory m, where malloc (when it is
\* called) returns p and the new allocation gets identity id.
\*   exc: the exception thrown ("none" when it returns)
\*   ub:  the undefined behaviour executed on the way ("none" when there is none)
default_process_impl(CharT, m, sentence, p, id) ==
    IF sentence.allocated = 0
    THEN LET bytes == AllocSize(sentence.length, CharT)
             copied == ReadCells(m, sentence.data, sentence.length)
             ub == IF sentence.length * SizeOf(CharT) > bytes THEN "heap_overflow"
                   ELSE IF Len(copied) < sentence.length THEN "over_read"
                   ELSE "none"
             out == default_process(copied)
         IN IF p = nullptr
            THEN [exc |-> "bad_alloc", ub |-> "none", mem |-> m,
                  str |-> NullString, malloced |-> nullptr, bytes |-> bytes]
            ELSE [exc |-> "none", ub |-> ub,
                  mem |-> [m EXCEPT ![p] = [st |-> "live", cells |-> out,
                                            id |-> id]],
                  str |-> RapidFuzzString(sentence.kind, 1, p, Len(out), nullptr),
                  malloced |-> p, bytes |-> bytes]
    ELSE LET str == sentence.data
             old == ReadCells(m, str, sentence.length)
             ub == IF str = nullptr \/ m[str].st # "live" THEN "use_after_free"
                   ELSE IF Len(old) < sentence.length THEN "over_read"
                   ELSE "none"
             out == default_process(old)
         IN [exc |-> "none", ub |-> ub,
             mem |-> IF str = nullptr THEN m ELSE [m EXCEPT ![str].cells = out],
             str |-> RapidFuzzString(sentence.kind, 1, str, Len(out), nullptr),
             malloced |-> nullptr, bytes |-> 0]

default_process_func(m, sentence, p, id) ==
    IF sentence.kind \in Kinds
    THEN default_process_impl(TypeOf(sentence.kind), m, sentence, p, id)
    ELSE [exc |-> "logic_error", ub |-> "none", mem |-> m, str |-> NullString,
          malloced |-> nullptr, bytes |-> 0]

\* process_dealloc_no_context that frees the data but leaves *sentence as it was
process_dealloc_keeps_fields(m, fc, sentence) ==
    IF sentence.allocated # 0
    THEN [mem |-> FreeMem(m, sentence.data),
          fc |-> FreeCnt(m, fc, sentence.data),
          ub |-> FreeIsUB(m, sentence.data),
          freed |-> sentence.data,
          str |-> sentence]
    ELSE [mem |-> m, fc |-> fc, ub |-> FALSE, freed |-> nullptr, str |-> sentence]

\* process_dealloc_no_context without the test of the allocated flag
process_dealloc_unconditional(m, fc, sentence) ==
    [mem |-> FreeMem(m, sentence.data),
     fc |-> FreeCnt(m, fc, sentence.data),
     ub |-> FreeIsUB(m, sentence.data),
     freed |-> sentence.data,
     str |-> [sentence EXCEPT !.data = nullptr, !.allocated = 0,
                              !.length = 0, !.context = nullptr]]

\* process_dealloc_no_context(&sentence): memory, free counts and *sentence after
\* the call; ub tells whether its free() was undefined behaviour
process_dealloc_no_context(m, fc, sentence) ==
    IF sentence.allocated # 0
    THEN [mem |-> FreeMem(m, sentence.data),
          fc |-> FreeCnt(m, fc, sentence.data),
          ub |-> FreeIsUB(m, sentence.data),
          freed |-> sentence.data,
          str |-> [sentence EXCEPT !.data = nullptr, !.allocated = 0,
                                   !.length = 0, !.context = nullptr]]
    ELSE [mem |-> m, fc |-> fc, ub |-> FALSE, freed |-> nullptr, str |-> sentence]

\* a call through a RapidFuzzStringDealloc pointer that is not null
CallDealloc(dealloc, m, fc, sentence) ==
    process_dealloc_no_context(m, fc, sentence)

----------------------------------------------------------------------------
(* ProcStringWrapper *)

Slots == 1..NumWrappers

\* the host strings wrappers are constructed from: " A" (one byte per element)
\* and "A\u0101" (two bytes per element)
WrappedHosts == {1, 3}
DeallocFns == {"nullptr", "process_dealloc_no_context"}
Processors == {"convert_string", "default_process"}

\* moved: the object has been the source of a move since it last got a value
NoWrapper ==
    [st |-> "none", str |-> NullString, dealloc |-> "nullptr", moved |-> FALSE]

\* after undefined behaviour in free() the allocator either aborts the process
\* or carries on
CrashChoices(ub) == IF ub THEN {TRUE, FALSE} ELSE {FALSE}

NoCall == [name |-> "none"]
NoRet == [op |-> "none"]

----------------------------------------------------------------------------
(* Generated dispatchers (cpp_common.hpp) *)

\* RATIO_IMPL_DEF / DISTANCE_IMPL_DEF instantiations: name -> RATIO_FUNC
RatioFuncs ==
    [ratio |-> "fuzz::ratio",
     partial_ratio |-> "fuzz::partial_ratio",
     token_sort_ratio |-> "fuzz::token_sort_ratio",
     token_set_ratio |-> "fuzz::token_set_ratio",
     token_ratio |-> "fuzz::token_ratio",
     partial_token_sort_ratio |-> "fuzz::partial_token_sort_ratio",
     partial_token_set_ratio |-> "fuzz::partial_token_set_ratio",
     partial_token_ratio |-> "fuzz::partial_token_ratio",
     WRatio |-> "fuzz::WRatio",
     QRatio |-> "fuzz::QRatio",
     normalized_levenshtein |-> "string_metric::normalized_levenshtein",
     normalized_hamming |-> "string_metric::normalized_hamming"]

DistanceFuncs ==
    [levenshtein |-> "string_metric::levenshtein",
     hamming |-> "string_metric::hamming"]

RatioNames == DOMAIN RatioFuncs
DistanceNames == DOMAIN DistanceFuncs

\* outcome of a dispatcher: the exception it throws ("none" when it returns),
\* the undefined behaviour it runs into ("none" when there is none) and the
\* algorithm instantiations it called, in order
Thrown(what) == [exc |-> what, ub |-> "none", calls |-> <<>>]

\* the call RATIO_FUNC(first, second, args...) of a generic algorithm
Algorithm(RATIO_FUNC, first, second, args) ==
    [exc |-> "none", ub |-> "none",
     calls |-> <<[func |-> RATIO_FUNC, first |-> first, second |-> second,
                  args |-> args]>>]

\* X_ENUM(KIND, TYPE, RATIO_FUNC), the body of one case label:
\*     return RATIO_FUNC(s2, to_string_view<TYPE>(s1), args...)
\* as the argument list it hands to RATIO_FUNC
X_ENUM(TYPE, s1, s2, args) == <<s2, to_string_view(TYPE, s1), args>>

\* an inner dispatcher that views its first parameter but does not swap back
impl_inner_unswapped(RATIO_FUNC, s1, s2, args) ==
    IF s1.kind \in Kinds
    THEN Algorithm(RATIO_FUNC, to_string_view(TypeOf(s1.kind), s1), s2, args)
    ELSE Thrown("logic_error")

\* RATIO_IMPL_INNER / DISTANCE_IMPL_INNER: RATIO##_impl_inner(s1, s2, args...)
impl_inner(RATIO_FUNC, s1, s2, args) ==
    IF s1.kind \in Kinds
    THEN LET a == X_ENUM(TypeOf(s1.kind), s1, s2, args)
         IN Algorithm(RATIO_FUNC, a[1], a[2], a[3])
    ELSE Thrown("logic_error")

\* RATIO_IMPL / DISTANCE_IMPL: RATIO##_impl(s1, s2, args...)
impl(RATIO_FUNC, s1, s2, args) ==
    IF s1.kind \in Kinds
    THEN LET a == X_ENUM(TypeOf(s1.kind), s1, s2, args)
         IN impl_inner(RATIO_FUNC, a[1], a[2], a[3])
    ELSE Thrown("logic_error")

----------------------------------------------------------------------------
(* ProcStringWrapper operations and the scorer calls made on wrapped strings *)

\* ProcStringWrapper()
DefaultConstruct(w) ==
    /\ ~crashed
    /\ wrappers[w].st = "none"
    /\ wrappers' = [wrappers EXCEPT ![w] =
           [NoWrapper EXCEPT !.st = "live"]]
    /\ call' = NoCall
    /\ UNCHANGED <<mem, nalloc, freeCount, crashed, bufs, ret>>

\* ProcStringWrapper(py_str, processor, _dealloc), with the processor either
\* convert_string or default_process_func applied to convert_string's result
ConstructFrom(w, py_str, processor, dealloc, p) ==
    /\ ~crashed
    /\ wrappers[w].st = "none"
    /\ validate_string(py_str) = "ok"
    /\ processor = "default_process" => dealloc = "process_dealloc_no_context"
    /\ processor = "convert_string" => p = nullptr
    /\ LET r == IF processor = "convert_string"
                THEN [exc |-> "none", mem |-> mem, str |-> convert_string(py_str),
                      malloced |-> nullptr]
                ELSE default_process_func(mem, convert_string(py_str), p, nalloc + 1)
       IN /\ mem' = r.mem
          /\ nalloc' = IF r.malloced # nullptr THEN nalloc + 1 ELSE nalloc
          /\ wrappers' = [wrappers EXCEPT ![w] =
                 IF r.exc = "none"
                 THEN [st |-> "live", str |-> r.str, dealloc |-> dealloc,
                       moved |-> FALSE]
                 ELSE [NoWrapper EXCEPT !.st = "failed"]]
    /\ call' = NoCall
    /\ UNCHANGED <<freeCount, crashed, bufs, ret>>

\* ProcStringWrapper(ProcStringWrapper&& other)
MoveConstruct(w, other) ==
    /\ ~crashed
    /\ wrappers[w].st = "none"
    /\ wrappers[other].st = "live"
    /\ wrappers' = [wrappers EXCEPT
           ![w] = [st |-> "live", str |-> wrappers[other].str,
                   dealloc |-> wrappers[other].dealloc, moved |-> FALSE],
           ![other].dealloc = "nullptr",
           ![other].moved = TRUE]
    /\ call' = NoCall
    /\ UNCHANGED <<mem, nalloc, freeCount, crashed, bufs, ret>>

\* operator=(ProcStringWrapper&& other)
MoveAssign(this, other) ==
    /\ ~crashed
    /\ wrappers[this].st = "live"
    /\ wrappers[other].st = "live"
    /\ IF other # this
       THEN LET d == IF wrappers[this].dealloc # "nullptr"
                     THEN CallDealloc(wrappers[this].dealloc, mem, freeCount,
                                      wrappers[this].str)
                     ELSE [mem |-> mem, fc |-> freeCount, ub |-> FALSE,
                           freed |-> nullptr, str |-> wrappers[this].str]
            IN /\ mem' = d.mem
               /\ freeCount' = d.fc
               /\ crashed' \in CrashChoices(d.ub)
               /\ wrappers' = [wrappers EXCEPT
                      ![this].str = wrappers[other].str,
                      ![this].moved = FALSE,
                      ![other].dealloc = "nullptr",
                      ![other].moved = TRUE]
       ELSE UNCHANGED <<mem, freeCount, crashed, wrappers>>
    /\ call' = NoCall
    /\ UNCHANGED <<nalloc, bufs, ret>>

\* ~ProcStringWrapper()
Destroy(w) ==
    /\ ~crashed
    /\ wrappers[w].st = "live"
    /\ LET d == IF wrappers[w].dealloc # "nullptr"
                THEN CallDealloc(wrappers[w].dealloc, mem, freeCount, wrappers[w].str)
                ELSE [mem |-> mem, fc |-> freeCount, ub |-> FALSE,
                      freed |-> nullptr, str |-> wrappers[w].str]
       IN /\ mem' = d.mem
          /\ freeCount' = d.fc
          /\ crashed' \in CrashChoices(d.ub)
          /\ wrappers' = [wrappers EXCEPT ![w] =
                 [NoWrapper EXCEPT !.st = "dead"]]
    /\ call' = NoCall
    /\ UNCHANGED <<nalloc, bufs, ret>>

\* process_dealloc_no_context(&w.str) called on the public member
ReleaseStr(w) ==
    /\ ~crashed
    /\ wrappers[w].st = "live"
    /\ LET d == process_dealloc_no_context(mem, freeCount, wrappers[w].str)
       IN /\ mem' = d.mem
          /\ freeCount' = d.fc
          /\ crashed' \in CrashChoices(d.ub)
          /\ wrappers' = [wrappers EXCEPT ![w].str = d.str]
    /\ call' = NoCall
    /\ UNCHANGED <<nalloc, bufs, ret>>

\* cpp_ratio(w1.str, w2.str, 0) on the strings of two wrappers whose data
\* is valid to read
Dispatch(w1, w2) ==
    /\ ~crashed
    /\ wrappers[w1].st = "live" /\ wrappers[w2].st = "live"
    /\ \A w \in {w1, w2} :
          wrappers[w].str.data # nullptr =>
              mem[wrappers[w].str.data].st \in {"host", "live"}
    /\ LET d == impl(RatioFuncs["ratio"], wrappers[w1].str, wrappers[w2].str, <<0>>)
       IN call' = [name |-> "ratio", exc |-> d.exc, ub |-> d.ub, calls |-> d.calls]
    /\ UNCHANGED <<mem, nalloc, freeCount, crashed, wrappers, bufs, ret>>

Init ==
    /\ mem = InitMem
    /\ nalloc = 0
    /\ freeCount = [i \in AllocIds |-> 0]
    /\ crashed = FALSE
    /\ wrappers = [w \in Slots |-> NoWrapper]
    /\ bufs = [b \in {1, 2} |-> NullString]
    /\ ret = NoRet
    /\ call = NoCall

Next ==
    \/ \E w \in Slots : DefaultConstruct(w)
    \/ \E w \in Slots, h \in WrappedHosts, f \in Processors, d \in DeallocFns,
          p \in MallocChoices : ConstructFrom(w, h, f, d, p)
    \/ \E w, o \in Slots : MoveConstruct(w, o)
    \/ \E w, o \in Slots : MoveAssign(w, o)
    \/ \E w \in Slots : Destroy(w)
    \/ \E w \in Slots : ReleaseStr(w)
    \/ \E w1, w2 \in Slots : Dispatch(w1, w2)

Spec == Init /\ [][Next]_vars

\* the five ProcStringWrapper operations alone
NextWrapper ==
    \/ \E w \in Slots : DefaultConstruct(w)
    \/ \E w \in Slots, h \in WrappedHosts, f \in Processors, d \in DeallocFns,
          p \in MallocChoices : ConstructFrom(w, h, f, d, p)
    \/ \E w, o \in Slots : MoveConstruct(w, o)
    \/ \E w, o \in Slots : MoveAssign(w, o)
    \/ \E w \in Slots : Destroy(w)

SpecWrapper == Init /\ [][NextWrapper]_vars


----------------------------------------------------------------------------
(* Scorer entry points (cpp_scorer.hpp) and result marshaling *)

PyLong_FromLong(v) == v
PyLong_FromSize_t(v) == v

\* dist_to_long without the test for the sentinel
dist_to_long_plain(dist) == PyLong_FromSize_t(dist)

dist_to_long(dist) ==
    IF dist = SizeMax THEN PyLong_FromLong(-1) ELSE PyLong_FromSize_t(dist)

\* no_process<TYPE>(s): the view of s at element type TYPE
no_process(TYPE, s) == to_string_view(TYPE, s)

\* X_ENUM as redefined in cpp_scorer.hpp:
\*     return RATIO_FUNC(s2, no_process<TYPE>(s1))
X_ENUM_editops(TYPE, s1, s2) == <<s2, no_process(TYPE, s1)>>

\* control reaches the closing brace of a function that returns a value
FlowsOffTheEnd == [exc |-> "none", ub |-> "no_return", calls |-> <<>>]

\* levenshtein_editops_inner(s1, s2): a switch with no default label
levenshtein_editops_inner(s1, s2) ==
    IF s1.kind \in Kinds
    THEN LET a == X_ENUM_editops(TypeOf(s1.kind), s1, s2)
         IN Algorithm("string_metric::levenshtein_editops", a[1], a[2], <<>>)
    ELSE FlowsOffTheEnd

\* cpp_levenshtein_editops(s1, s2): a switch with no default label
cpp_levenshtein_editops(s1, s2) ==
    IF s1.kind \in Kinds
    THEN LET a == X_ENUM_editops(TypeOf(s1.kind), s1, s2)
         IN levenshtein_editops_inner(a[1], a[2])
    ELSE FlowsOffTheEnd

\* what a build can do after flowing off the end of a value-returning function
NoReturnOutcomes == {"returns_indeterminate", "traps"}

\* the two descriptors handed to an entry point; every value of the uint8_t
\* kind field up to one past the enumeration is drawn
KindValues == 0..Len(LIST_OF_CASES)
Arg1(k) == RapidFuzzString(k, 0, 1, 1, nullptr)
Arg2(k) == RapidFuzzString(k, 0, 3, 2, nullptr)
Cutoffs == {0, 50}
Scores == {0, 100}
SizeValues == 0..SizeMax

\* cpp_ratio ... cpp_normalized_hamming, cpp_normalized_levenshtein:
\* return RATIO##_impl(s1, s2, args...); score is what the algorithm returns
SimilarityCall(name, k1, k2, cutoff, score) ==
    /\ call = NoCall
    /\ LET d == impl(RatioFuncs[name], Arg1(k1), Arg2(k2), <<cutoff>>)
       IN call' = [name |-> name, s1 |-> Arg1(k1), s2 |-> Arg2(k2),
                   args |-> <<cutoff>>, exc |-> d.exc, ub |-> d.ub,
                   calls |-> d.calls, raw |-> score,
                   result |-> IF d.exc = "none" THEN score ELSE -2,
                   returned |-> d.exc = "none"]
    /\ UNCHANGED <<mem, nalloc, freeCount, crashed, wrappers, bufs, ret>>

\* cpp_hamming / cpp_levenshtein: dist_to_long(RATIO##_impl(s1, s2, args...));
\* dist is what the algorithm returns
DistanceCall(name, k1, k2, max, dist) ==
    /\ call = NoCall
    /\ LET d == impl(DistanceFuncs[name], Arg1(k1), Arg2(k2), <<max>>)
       IN call' = [name |-> name, s1 |-> Arg1(k1), s2 |-> Arg2(k2),
                   args |-> <<max>>, exc |-> d.exc, ub |-> d.ub,
                   calls |-> d.calls, raw |-> dist,
                   result |-> IF d.exc = "none" THEN dist_to_long(dist) ELSE -2,
                   returned |-> d.exc = "none"]
    /\ UNCHANGED <<mem, nalloc, freeCount, crashed, wrappers, bufs, ret>>

\* cpp_levenshtein_editops(s1, s2)
EditopsCall(k1, k2, outcome) ==
    /\ call = NoCall
    /\ LET d == cpp_levenshtein_editops(Arg1(k1), Arg2(k2))
       IN /\ d.ub = "none" => outcome = "returns"
          /\ d.ub # "none" => outcome \in NoReturnOutcomes
          /\ call' = [name |-> "levenshtein_editops", s1 |-> Arg1(k1),
                      s2 |-> Arg2(k2), args |-> <<>>, exc |-> d.exc,
                      ub |-> d.ub, calls |-> d.calls, raw |-> 0, result |-> 0,
                      returned |-> outcome # "traps"]
    /\ UNCHANGED <<mem, nalloc, freeCount, crashed, wrappers, bufs, ret>>

NextDispatch ==
    \/ \E n \in RatioNames, k1, k2 \in KindValues, c \in Cutoffs, r \in Scores :
          SimilarityCall(n, k1, k2, c, r)
    \/ \E n \in DistanceNames, k1, k2 \in KindValues, m \in {0, SizeMax},
          r \in SizeValues : DistanceCall(n, k1, k2, m, r)
    \/ \E k1, k2 \in KindValues,
          o \in NoReturnOutcomes \cup {"returns"} : EditopsCall(k1, k2, o)

SpecDispatch == Init /\ [][NextDispatch]_vars

----------------------------------------------------------------------------
(* The C functions called on bare descriptors: the adapter, the normalizer *)
(* and the release function.                                               *)

\* the caller holds two descriptors: an argument and a result
BufSlots == {1, 2}

\* validate_string(py_str); b = convert_string(py_str)
Convert(b, py_str) ==
    /\ ~crashed
    /\ LET v == validate_string(py_str)
       IN /\ bufs' = IF v = "ok" THEN [bufs EXCEPT ![b] = convert_string(py_str)]
                     ELSE bufs
          /\ ret' = [op |-> "convert", host |-> py_str, exc |-> v,
                     str |-> IF v = "ok" THEN convert_string(py_str) ELSE NullString]
    /\ UNCHANGED <<mem, nalloc, freeCount, crashed, wrappers, call>>

\* b = default_process_func(bufs[src]), malloc returning p
Process(b, src, p) ==
    /\ ~crashed
    /\ LET r == default_process_func(mem, bufs[src], p, nalloc + 1)
       IN /\ r.malloced = nullptr => p = nullptr
          /\ mem' = r.mem
          /\ nalloc' = IF r.malloced # nullptr THEN nalloc + 1 ELSE nalloc
          /\ bufs' = IF r.exc = "none" THEN [bufs EXCEPT ![b] = r.str] ELSE bufs
          /\ crashed' \in CrashChoices(r.ub # "none")
          /\ ret' = [op |-> "process", input |-> bufs[src],
                     exc |-> r.exc, ub |-> r.ub, str |-> r.str,
                     malloced |-> r.malloced, bytes |-> r.bytes]
    /\ UNCHANGED <<freeCount, wrappers, call>>

\* process_dealloc_no_context(&bufs[b])
Release(b) ==
    /\ ~crashed
    /\ LET d == process_dealloc_no_context(mem, freeCount, bufs[b])
       IN /\ mem' = d.mem
          /\ freeCount' = d.fc
          /\ bufs' = [bufs EXCEPT ![b] = d.str]
          /\ crashed' \in CrashChoices(d.ub)
          /\ ret' = [op |-> "release", input |-> bufs[b],
                     str |-> d.str, freed |-> d.freed, ub |-> d.ub]
    /\ UNCHANGED <<nalloc, wrappers, call>>

\* the caller stores 90 ('Z') into element i of the normalized copy bufs[b]
WriteCopy(b, i) ==
    /\ ~crashed
    /\ bufs[b].allocated # 0
    /\ bufs[b].data # nullptr
    /\ mem[bufs[b].data].st = "live"
    /\ i \in 1..Min(bufs[b].length, Len(mem[bufs[b].data].cells))
    /\ mem' = [mem EXCEPT ![bufs[b].data].cells[i] = 90]
    /\ ret' = [op |-> "write", input |-> bufs[b]]
    /\ UNCHANGED <<nalloc, freeCount, crashed, wrappers, bufs, call>>

NextProcess ==
    \/ \E b \in BufSlots, h \in HostIds : Convert(b, h)
    \/ \E b, src \in BufSlots, p \in MallocChoices : Process(b, src, p)
    \/ \E b \in BufSlots : Release(b)
    \/ \E b \in BufSlots, i \in 1..MaxLen : WriteCopy(b, i)

SpecProcess == Init /\ [][NextProcess]_vars

\* the life of a descriptor up to its release: adapt, normalize, release;
\* the strings " A" (one byte wide, shortened by the normalizer) and "A\u0101"
\* (two bytes wide) are adapted
ReleasedHosts == {1, 3}

NextRelease ==
    \/ \E b \in BufSlots, h \in ReleasedHosts : Convert(b, h)
    \/ \E b, src \in BufSlots, p \in MallocChoices : Process(b, src, p)
    \/ \E b \in BufSlots : Release(b)

SpecRelease == Init /\ [][NextRelease]_vars

\* descriptors of borrowed host storage whose length field is anything a
\* caller can write into it
ForgedStrings ==
    {[convert_string(h) EXCEPT !.length = n] : h \in UnicodeIds, n \in SizeValues}

InitAlloc ==
    /\ mem = InitMem
    /\ nalloc = 0
    /\ freeCount = [i \in AllocIds |-> 0]
    /\ crashed = FALSE
    /\ wrappers = [w \in Slots |-> NoWrapper]
    /\ bufs \in [BufSlots -> ForgedStrings \cup {NullString}]
    /\ bufs[1] \in ForgedStrings
    /\ \A b \in BufSlots \ {1} : bufs[b] = NullString
    /\ ret = NoRet
    /\ call = NoCall

NextAlloc ==
    \E b \in BufSlots, p \in MallocChoices : ret = NoRet /\ Process(b, 1, p)

SpecAlloc == InitAlloc /\ [][NextAlloc]_vars

----------------------------------------------------------------------------
(* Ownership of ProcStringWrapper (SpecWrapper, Spec) *)

NoLiveWrapper == \A w \in Slots : wrappers[w].st # "live"

\* w would release the memory its descriptor names when destroyed
Owns(w) ==
    /\ wrappers[w].st = "live"
    /\ wrappers[w].dealloc # "nullptr"
    /\ wrappers[w].str.allocated # 0

\* C1: through default construction, construction from a processor result,
\* move-construction, move-assignment and destruction, no allocation made by
\* the normalizer is ever freed twice, and once every wrapper is destroyed
\* each of them has been freed exactly once.
C1_OwnedFreedExactlyOnce ==
    /\ \A id \in AllocIds : freeCount[id] <= 1
    /\ (~crashed /\ NoLiveWrapper) => \A id \in 1..nalloc : freeCount[id] = 1

\* C2: a move-assignment dst = std::move(src) with dst # src leaves dst with
\* the descriptor and the release function src had, and src disarmed.
C2_MoveAssignAdoptsState ==
    [][\A dst, src \in Slots :
          (dst # src /\ MoveAssign(dst, src)) =>
              /\ wrappers'[dst].str = wrappers[src].str
              /\ wrappers'[dst].dealloc = wrappers[src].dealloc
              /\ wrappers'[src].dealloc = "nullptr"]_vars

\* C3: a moved-from wrapper has given its ownership away: destroying it frees
\* nothing, and a wrapper that is move-constructed or move-assigned from it
\* does not come to own memory through that move.
C3_MovedFromIsInert ==
    [][\A o \in Slots :
          (wrappers[o].st = "live" /\ wrappers[o].moved) =>
              /\ Destroy(o) => (mem' = mem /\ freeCount' = freeCount)
              /\ \A w \in Slots \ {o} :
                    (MoveConstruct(w, o) \/ MoveAssign(w, o)) => ~Owns(w)']_vars

\* C4: a buffer that points at host storage is borrowed (allocated flag 0),
\* and whatever moves, scorer calls, release calls and destructions are
\* applied, the storage of every host string stays as it was: never freed,
\* never written.
C4_HostStorageUntouched ==
    /\ \A h \in HostAddrs : mem[h] = InitMem[h]
    /\ \A w \in Slots :
          wrappers[w].str.data \in HostAddrs => wrappers[w].str.allocated = 0

\* a borrowed buffer was wrapped with the release function armed, moved to
\* another wrapper, and that wrapper was destroyed
C4_Witness ==
    \E w, v \in Slots :
        /\ wrappers[w].st = "live" /\ wrappers[w].moved
        /\ wrappers[w].str.data \in HostAddrs
        /\ wrappers[v].st = "dead"

----------------------------------------------------------------------------
(* Dispatch and marshaling (SpecDispatch) *)

\* the element type each width tag denotes
ElementType ==
    [k \in Kinds |->
        <<"uint8_t", "uint16_t", "uint32_t", "uint64_t", "int64_t">>[k + 1]]

DispatcherNames == RatioNames \cup DistanceNames

RegisteredFunc(name) ==
    IF name \in RatioNames THEN RatioFuncs[name] ELSE DistanceFuncs[name]

\* C5: for every generated dispatcher and every pair of width tags exactly one
\* algorithm call is made, the registered algorithm, with the first buffer
\* viewed at its own tag's type as first argument, the second buffer viewed
\* at its own tag's type as second argument, and the extra arguments passed on.
C5_DispatchSelectsOwnWidths ==
    (/\ call.name \in DispatcherNames
     /\ call.s1.kind \in Kinds
     /\ call.s2.kind \in Kinds) =>
        /\ call.exc = "none"
        /\ call.ub = "none"
        /\ Len(call.calls) = 1
        /\ call.calls[1].func = RegisteredFunc(call.name)
        /\ call.calls[1].first =
               [type |-> ElementType[call.s1.kind], data |-> call.s1.data,
                size |-> call.s1.length]
        /\ call.calls[1].second =
               [type |-> ElementType[call.s2.kind], data |-> call.s2.data,
                size |-> call.s2.length]
        /\ call.calls[1].args = call.args

\* a dispatcher was called with an 8-bit first and a signed 64-bit second buffer
C5_Witness ==
    /\ call.name = "token_sort_ratio"
    /\ call.s1.kind = RAPIDFUZZ_UINT8
    /\ call.s2.kind = RAPIDFUZZ_INT64
    /\ Len(call.calls) = 1

\* C6: every dispatching entry point, cpp_levenshtein_editops included, called
\* with a buffer whose kind is none of the five width tags aborts with a logic
\* error, calls no algorithm and returns nothing.
C6_UnknownKindAborts ==
    (/\ call.name # "none"
     /\ (call.s1.kind \notin Kinds \/ call.s2.kind \notin Kinds)) =>
        /\ call.exc = "logic_error"
        /\ call.ub = "none"
        /\ call.calls = <<>>
        /\ ~call.returned

\* C7: cpp_hamming and cpp_levenshtein return -1 exactly when the algorithm
\* returned the largest std::size_t, and otherwise the non-negative integer the
\* algorithm returned.
C7_SentinelMarshaling ==
    (call.name \in DistanceNames /\ call.returned) =>
        /\ (call.result = -1) <=> (call.raw = SizeMax)
        /\ call.raw # SizeMax => (call.result = call.raw /\ call.result >= 0)

\* the algorithm reported "exceeds max" and the caller got -1
C7_Witness ==
    /\ call.name = "levenshtein"
    /\ call.returned
    /\ call.raw = SizeMax
    /\ call.result = -1

----------------------------------------------------------------------------
(* Adapter and normalizer (SpecProcess, SpecAlloc) *)

\* C8: when length * sizeof(CharT) of a borrowed input does not fit the
\* machine word, the normalizer reports allocation failure and allocates
\* nothing.
C8_OverflowRefused ==
    (/\ ret.op = "process"
     /\ ret.input.allocated = 0
     /\ ret.input.kind \in Kinds
     /\ ret.input.length * SizeOf(ElementType[ret.input.kind]) > SizeMax) =>
        /\ ret.exc = "bad_alloc"
        /\ ret.malloced = nullptr

\* the newest allocation: made by the call that has just returned
Fresh(a) == a \in HeapAddrs /\ mem[a].st = "live" /\ mem[a].id = nalloc

HostsUnchanged == \A h \in HostAddrs : mem[h] = InitMem[h]

\* C9 as stated: whatever the input, owned or borrowed, the result is an owned
\* buffer in a fresh allocation that is not the input's data.
C9_AlwaysFreshCopy ==
    (ret.op = "process" /\ ret.exc = "none" /\ ~crashed) =>
        /\ ret.str.allocated = 1
        /\ ret.malloced # nullptr
        /\ ret.str.data = ret.malloced
        /\ ret.str.data # ret.input.data

\* C9 (amended): for a borrowed input the result is an owned buffer of the same
\* width tag and at most the same length in a fresh allocation that is not
\* the input's data; for an owned input the result is the input's own data
\* pointer, normalized in place, and nothing is allocated. Host storage is
\* never changed, neither by normalizing nor by writing to a normalized copy.
C9_FreshCopyOfBorrowed ==
    /\ HostsUnchanged
    /\ (ret.op = "process" /\ ret.exc = "none" /\ ret.ub = "none") =>
          /\ ret.str.allocated = 1
          /\ ret.str.kind = ret.input.kind
          /\ ret.str.length <= ret.input.length
          /\ ret.str.context = nullptr
          /\ IF ret.input.allocated = 0
             THEN /\ ret.malloced # nullptr
                  /\ ret.str.data = ret.malloced
                  /\ ret.str.data # ret.input.data
                  /\ Fresh(ret.str.data)
                  /\ ret.str.length = Len(mem[ret.str.data].cells)
             ELSE /\ ret.malloced = nullptr
                  /\ ret.str.data = ret.input.data

\* " A" was normalized: the copy holds "a", the host string is as it was
C9_Witness ==
    /\ ret.op = "process"
    /\ ret.exc = "none"
    /\ ret.input = convert_string(1)
    /\ mem[ret.str.data].cells = <<97>>
    /\ ret.str.length = 1
    /\ mem[1].cells = <<32, 65>>

\* the width tag that is just wide enough for every element
MinimalTag(cells) ==
    IF \A i \in 1..Len(cells) : cells[i] <= 255 THEN RAPIDFUZZ_UINT8
    ELSE IF \A i \in 1..Len(cells) : cells[i] <= 65535 THEN RAPIDFUZZ_UINT16
    ELSE RAPIDFUZZ_UINT32

BorrowedViewOf(h, str) ==
    /\ str.kind = MinimalTag(Hosts[h].cells)
    /\ str.kind \notin {RAPIDFUZZ_UINT64, RAPIDFUZZ_INT64}
    /\ str.length = Len(Hosts[h].cells)
    /\ str.data = h
    /\ str.allocated = 0

Cleared(str) == RapidFuzzString(str.kind, 0, nullptr, 0, nullptr)

\* exactly one free() of the block at p is counted, and only that block changes
FreedOnce(p) ==
    /\ \A a \in Addrs \ {p} : mem'[a] = mem[a]
    /\ mem'[p].st = "freed"
    /\ \A i \in AllocIds :
          freeCount'[i] = IF i = mem[p].id /\ freeCount[i] < 2
                          THEN freeCount[i] + 1
                          ELSE freeCount[i]

ReleaseIsIdempotent(b) ==
    Release(b) =>
        /\ \A o \in BufSlots \ {b} : bufs'[o] = bufs[o]
        /\ IF bufs[b].allocated # 0
           THEN /\ ret'.freed = bufs[b].data
                /\ bufs[b].data # nullptr
                /\ FreedOnce(bufs[b].data)
                /\ bufs'[b] = Cleared(bufs[b])
           ELSE /\ ret'.freed = nullptr
                /\ UNCHANGED <<mem, freeCount, bufs, crashed>>
        /\ (ret.op = "release" /\ bufs[b] = ret.str) =>
              /\ ret'.freed = nullptr
              /\ UNCHANGED <<mem, freeCount, bufs, crashed>>

\* C11: process_dealloc_no_context called on an owned buffer calls free on its
\* data once and clears the allocated flag, the data pointer, the length and
\* the context, touching no other block and no other descriptor; called on
\* the buffer a release has just left behind it frees nothing; called on a
\* buffer whose allocated flag is 0 it frees nothing and changes no field.
C11_ReleaseIdempotent ==
    [][\A b \in BufSlots : ReleaseIsIdempotent(b)]_vars

\* the normalized copy of a two-byte string was released and then released
\* again: one free is counted, none twice, and the second call freed nothing
C11_Witness ==
    /\ ret.op = "release"
    /\ ret.input = RapidFuzzString(RAPIDFUZZ_UINT16, 0, nullptr, 0, nullptr)
    /\ ret.str = ret.input
    /\ ret.freed = nullptr
    /\ \E i \in AllocIds : freeCount[i] = 1
    /\ \A i \in AllocIds : freeCount[i] <= 1
    /\ ~crashed

====
